---- MODULE Spec2Model ----
(***************************************************************************)
(* Model of py2toml.py: the setup.py -> pyproject.toml converter.          *)
(*                                                                         *)
(* Text is a sequence of tokens.  Data that comes from the setup() call is *)
(* kept character by character (one-character strings); the literal parts *)
(* of the output template are single tokens that contain no newline.  A    *)
(* newline is always the token "\n" of its own.                            *)
(***************************************************************************)
EXTENDS Integers, Sequences, FiniteSets, TLC

(***************************************************************************)
(* Python string primitives (str.strip, str.split, str.join).              *)
(***************************************************************************)
Whitespace == {" ", "\t", "\n"}

RECURSIVE LStrip(_)
LStrip(s) ==
    IF s = <<>> THEN <<>>
    ELSE IF Head(s) \in Whitespace THEN LStrip(Tail(s)) ELSE s

RECURSIVE RStrip(_)
RStrip(s) ==
    IF s = <<>> THEN <<>>
    ELSE IF s[Len(s)] \in Whitespace THEN RStrip(SubSeq(s, 1, Len(s) - 1)) ELSE s

\* str.strip()
Strip(s) == RStrip(LStrip(s))

\* the least element of a non-empty set of integers
Min(S) == CHOOSE i \in S : \A j \in S : i <= j

\* str.split(sep) for a one-character separator: the text before the first
\* separator, then the split of the text after it; always at least one segment
RECURSIVE Split(_, _)
Split(s, sep) ==
    LET at == {i \in 1..Len(s) : s[i] = sep}
    IN  IF at = {} THEN <<s>>
        ELSE <<SubSeq(s, 1, Min(at) - 1)>> \o Split(SubSeq(s, Min(at) + 1, Len(s)), sep)

\* str.split() without argument: runs of whitespace separate, no empty token
RECURSIVE SplitWs(_, _)
SplitWs(s, cur) ==
    IF s = <<>> THEN (IF cur = <<>> THEN <<>> ELSE <<cur>>)
    ELSE IF Head(s) \in Whitespace
         THEN (IF cur = <<>> THEN <<>> ELSE <<cur>>) \o SplitWs(Tail(s), <<>>)
         ELSE SplitWs(Tail(s), Append(cur, Head(s)))

SplitWhitespace(s) == SplitWs(s, <<>>)

\* sep.join(parts)
RECURSIVE Join(_, _)
Join(parts, sep) ==
    IF parts = <<>> THEN <<>>
    ELSE IF Len(parts) = 1 THEN parts[1]
    ELSE parts[1] \o sep \o Join(Tail(parts), sep)

\* [f(x) for x in seq]
MapSeq(F(_), seq) == [i \in 1..Len(seq) |-> F(seq[i])]

\* str.rfind(c): 0 when absent, else the 1-based index of the last c
RECURSIVE RFind(_, _)
RFind(s, c) ==
    IF s = <<>> THEN 0
    ELSE IF s[Len(s)] = c THEN Len(s) ELSE RFind(SubSeq(s, 1, Len(s) - 1), c)

\* os.path.basename (posixpath)
Basename(p) == SubSeq(p, RFind(p, "/") + 1, Len(p))

\* os.path.splitext(p)[0] (genericpath._splitext): the last dot starts the
\* extension unless only dots lie between the file name's start and it
SplitextRoot(p) ==
    LET sepIndex == RFind(p, "/")
        dotIndex == RFind(p, ".")
    IN  IF dotIndex > sepIndex
           /\ \E k \in (sepIndex + 1)..(dotIndex - 1) : p[k] # "."
        THEN SubSeq(p, 1, dotIndex - 1)
        ELSE p

\* str.replace("\n\n\n", "\n\n"): left to right, non-overlapping, one pass
\* (the first occurrence is replaced, the search goes on after it)
RECURSIVE CollapseBlankLines(_)
CollapseBlankLines(t) ==
    LET at == {i \in 1..(Len(t) - 2) :
                  t[i] = "\n" /\ t[i + 1] = "\n" /\ t[i + 2] = "\n"}
    IN  IF at = {} THEN t
        ELSE SubSeq(t, 1, Min(at) - 1) \o <<"\n", "\n">>
             \o CollapseBlankLines(SubSeq(t, Min(at) + 3, Len(t)))

(***************************************************************************)
(* Values of the metadata mapping.  t is the Python type: "str", "list"    *)
(* (a list of str) or "num" (any non-string constant, kept as its text).   *)
(***************************************************************************)
StrVal(s)  == [t |-> "str",  s |-> s,    l |-> <<>>]
ListVal(l) == [t |-> "list", s |-> <<>>, l |-> l]
NumVal(s)  == [t |-> "num",  s |-> s,    l |-> <<>>]
\* the local variable `value` before its first assignment
Unbound    == [t |-> "unbound", s |-> <<>>, l |-> <<>>]

(***************************************************************************)
(* Syntax tree.  A value node has kind "Constant" (isStr tells a str from  *)
(* another constant, s is its text), "List"/"Tuple" (elts), "Name" (s is   *)
(* the identifier) or "Other" (a call, a dict literal: no .value, no .id). *)
(* An element of a list literal is a str constant, another constant, or    *)
(* some other node.  A keyword is [arg, value]; arg is NoArg for **kwargs. *)
(***************************************************************************)
ConstStr(s)  == [kind |-> "Constant", isStr |-> TRUE,  s |-> s,    elts |-> <<>>]
ConstNum(s)  == [kind |-> "Constant", isStr |-> FALSE, s |-> s,    elts |-> <<>>]
ListNode(e)  == [kind |-> "List",     isStr |-> FALSE, s |-> <<>>, elts |-> e]
TupleNode(e) == [kind |-> "Tuple",    isStr |-> FALSE, s |-> <<>>, elts |-> e]
NameNode(id) == [kind |-> "Name",     isStr |-> FALSE, s |-> id,   elts |-> <<>>]
OtherNode    == [kind |-> "Other",    isStr |-> FALSE, s |-> <<>>, elts |-> <<>>]
EltStr(s)    == [kind |-> "str", s |-> s]
EltNum(s)    == [kind |-> "num", s |-> s]
EltOther     == [kind |-> "other", s |-> <<>>]
NoArg        == "**"
Kw(arg, node) == [arg |-> arg, value |-> node]

\* dict assignment metadata[k] = v
SetKey(m, k, v) == [x \in (DOMAIN m) \cup {k} |-> IF x = k THEN v ELSE m[x]]
EmptyDict == [x \in {} |-> Unbound]

(***************************************************************************)
(* extract_metadata_from_setup, one keyword of the loop.  st is the loop   *)
(* state: the mapping, the local `value`, the diagnostics printed so far,   *)
(* the exception raised ("" while none) and the place that raised it (the  *)
(* keyword being processed, or "merge" for lines 62-73).                   *)
(***************************************************************************)
Raise(st, e, by) == [st EXCEPT !.exc = e, !.by = by]
Assign(st, arg, v, d) ==
    [st EXCEPT !.metadata = SetKey(st.metadata, arg, v),
               !.value = v,
               !.diag = st.diag \o d]

\* lines 32-34
AuthorBranch(st, kw) ==
    IF kw.value.kind = "Constant" /\ kw.value.isStr
    THEN Assign(st, kw.arg, ListVal(MapSeq(Strip, Split(kw.value.s, ","))),
                <<"adding_list">>)
    ELSE Raise(st, "AttributeError", kw.arg)

\* KeywordsOfStr without the whitespace fallback of lines 38-39
KeywordsOfStrNoFallback(s) == MapSeq(Strip, Split(s, ","))

\* lines 36-40: the keywords of a str constant
KeywordsOfStr(s) ==
    LET keywords == Split(s, ",")
    IN  MapSeq(Strip, IF Len(keywords) = 1 THEN SplitWhitespace(s) ELSE keywords)

\* lines 35-44
KeywordsBranch(st, kw) ==
    IF kw.value.kind # "Constant"
    THEN Raise(st, "AttributeError", kw.arg)    \* keyword.value.value
    ELSE IF kw.value.isStr
    THEN Assign(st, kw.arg, ListVal(MapSeq(Strip, KeywordsOfStr(kw.value.s))),
                <<"adding_list">>)
    ELSE Raise(st, "TypeError", kw.arg)         \* iterating a non-str constant

\* lines 45-50
ConstantBranch(st, kw) ==
    IF kw.value.isStr
    THEN Assign(st, kw.arg,
                StrVal(Join(SplitWhitespace(kw.value.s), <<" ">>)),
                <<"adding_constant">>)
    ELSE Assign(st, kw.arg, NumVal(kw.value.s), <<"adding_constant">>)

\* lines 51-55
ListBranch(st, kw) ==
    IF \A i \in 1..Len(kw.value.elts) : kw.value.elts[i].kind = "str"
    THEN Assign(st, kw.arg,
                ListVal([i \in 1..Len(kw.value.elts) |-> Strip(kw.value.elts[i].s)]),
                <<"adding_list">>)
    ELSE Raise(st, "AttributeError", kw.arg)    \* elt.value.strip

\* lines 56-58
NameBranch(st, kw) ==
    Assign(st, kw.arg, StrVal(kw.value.s), <<"adding_name">>)

\* no branch matched: line 60 stores whatever `value` holds
FallThrough(st, kw) ==
    IF st.value = Unbound
    THEN Raise(st, "UnboundLocalError", kw.arg)
    ELSE [st EXCEPT !.metadata = SetKey(st.metadata, kw.arg, st.value)]

\* lines 29-60
KeywordStep(st, kw) ==
    IF kw.arg = NoArg THEN [st EXCEPT !.diag = st.diag \o <<"not_keyword">>]
    ELSE IF kw.arg \in {"author", "author_email"} THEN AuthorBranch(st, kw)
    ELSE IF kw.arg = "keywords" THEN KeywordsBranch(st, kw)
    ELSE IF kw.value.kind = "Constant" THEN ConstantBranch(st, kw)
    ELSE IF kw.value.kind \in {"List", "Tuple"} THEN ListBranch(st, kw)
    ELSE IF kw.value.kind = "Name" THEN NameBranch(st, kw)
    ELSE FallThrough(st, kw)

\* lines 28-60: the loop stops at the first exception
RECURSIVE KeywordLoop(_, _)
KeywordLoop(st, kws) ==
    IF kws = <<>> \/ st.exc # "" THEN st
    ELSE KeywordLoop(KeywordStep(st, Head(kws)), Tail(kws))

\* f"{author} <{email}>"
AuthorWithEmail(author, email) == author \o <<" ", "<">> \o email \o <<">">>

\* MergeAuthors without the length test of line 66: zip() stops at the
\* shorter list
MergeAuthorsNoLengthTest(st) ==
    IF st.exc # "" \/ "author_email" \notin DOMAIN st.metadata THEN st
    ELSE IF "author" \notin DOMAIN st.metadata THEN Raise(st, "KeyError", "merge")
    ELSE LET authors == st.metadata["author"].l
             emails  == st.metadata["author_email"].l
             n == IF Len(authors) < Len(emails) THEN Len(authors) ELSE Len(emails)
         IN  [st EXCEPT !.metadata = SetKey(st.metadata, "author",
                   ListVal([i \in 1..n |-> AuthorWithEmail(authors[i], emails[i])]))]

\* lines 62-73
MergeAuthors(st) ==
    IF st.exc # "" \/ "author_email" \notin DOMAIN st.metadata THEN st
    ELSE IF "author" \notin DOMAIN st.metadata THEN Raise(st, "KeyError", "merge")
    ELSE LET authors == st.metadata["author"].l
             emails  == st.metadata["author_email"].l
         IN  IF Len(authors) # Len(emails)
             THEN [st EXCEPT !.diag = st.diag \o <<"count_mismatch">>]
             ELSE [st EXCEPT !.metadata = SetKey(st.metadata, "author",
                       ListVal([i \in 1..Len(authors) |->
                                   AuthorWithEmail(authors[i], emails[i])]))]

\* lines 26-77; the result's exc is "" when the function returns
extract_metadata_from_setup(kws) ==
    LET st0 == [metadata |-> EmptyDict, value |-> Unbound, diag |-> <<>>,
                  exc |-> "", by |-> ""]
        st1 == MergeAuthors(KeywordLoop(st0, kws))
    IN  IF st1.exc # "" THEN st1
        ELSE [st1 EXCEPT !.diag = st1.diag \o <<"metadata">>]

(***************************************************************************)
(* Rendering.                                                              *)
(***************************************************************************)
\* metadata.get(k, default)
Get(m, k, default) == IF k \in DOMAIN m THEN m[k] ELSE default

\* repr() of a str
ReprChar(c, q) ==
    IF c = "\\" THEN <<"\\", "\\">>
    ELSE IF c = q THEN <<"\\", q>>
    ELSE IF c = "\n" THEN <<"\\", "n">>
    ELSE IF c = "\t" THEN <<"\\", "t">>
    ELSE <<c>>

RECURSIVE ReprBody(_, _)
ReprBody(s, q) ==
    IF s = <<>> THEN <<>> ELSE ReprChar(Head(s), q) \o ReprBody(Tail(s), q)

Repr(s) ==
    LET hasSingle == \E i \in 1..Len(s) : s[i] = "'"
        hasDouble == \E i \in 1..Len(s) : s[i] = "\""
        q == IF hasSingle /\ ~hasDouble THEN "\"" ELSE "'"
    IN  <<q>> \o ReprBody(s, q) \o <<q>>

\* what an f-string writes for a value: str(v)
Format(v) ==
    IF v.t = "list"
    THEN <<"[">> \o Join(MapSeq(Repr, v.l), <<",", " ">>) \o <<"]">>
    ELSE v.s

\* bool(v)
Truthy(v) ==
    IF v.t = "list" THEN v.l # <<>>
    ELSE IF v.t = "str" THEN v.s # <<>>
    ELSE v.s \notin {<<"0">>, <<"N", "o", "n", "e">>, <<"F", "a", "l", "s", "e">>}

\* `for x in v`: the elements of a list, the characters of a str
Iterable(v) == v.t \in {"list", "str"}
Items(v) == IF v.t = "list" THEN v.l ELSE [i \in 1..Len(v.s) |-> <<v.s[i]>>]

\* lines 128-129
DependencyLine(req) == req \o <<" = \"*\"">>
generate_dependency_section(install_requires) ==
    Join(MapSeq(DependencyLine, install_requires), <<"\n">>)

\* ScriptLine with the base name, not the path, in the entry point
ScriptLineBaseNameTarget(script) ==
    SplitextRoot(Basename(script)) \o <<" = \"">> \o SplitextRoot(Basename(script))
    \o <<".__main__:main\"">>

\* lines 132-136
ScriptLine(script) ==
    SplitextRoot(Basename(script)) \o <<" = \"">> \o script \o <<".__main__:main\"">>
scripts_section(scripts) ==
    Join(MapSeq(ScriptLine, scripts), <<"\n">>)

\* line 100
ClassifierLine(cls) == <<"    \"">> \o cls \o <<"\",">>
ClassifiersBlock(items) ==
    <<"[", "\n">> \o Join(MapSeq(ClassifierLine, items), <<"\n">>) \o <<"\n", "]">>

\* lines 102-123: the template, given the three generated parts
Template(m, classifiers, deps, scripts) ==
       <<"[tool.poetry]", "\n">>
    \o <<"name = \"">> \o Format(Get(m, "name", StrVal(<<>>))) \o <<"\"", "\n">>
    \o <<"version = \"">> \o Format(Get(m, "version", StrVal(<<>>))) \o <<"\"", "\n">>
    \o <<"description = \"">> \o Format(Get(m, "description", StrVal(<<>>))) \o <<"\"", "\n">>
    \o <<"license = \"">> \o Format(Get(m, "license", StrVal(<<>>))) \o <<"\"", "\n">>
    \o <<"authors = ">> \o Format(Get(m, "author", StrVal(<<"[", "]">>))) \o <<"\n">>
    \o <<"readme = \"README.md\"", "\n">>
    \o <<"repository = \"">> \o Format(Get(m, "url", StrVal(<<>>))) \o <<"\"", "\n">>
    \o <<"keywords = ">> \o Format(Get(m, "keywords", StrVal(<<"[", "]">>))) \o <<"\n">>
    \o <<"classifiers = ">> \o classifiers \o <<"\n">>
    \o <<"\n">>
    \o <<"[tool.poetry.dependencies]", "\n">>
    \o <<"python = \"">> \o Format(Get(m, "python_requires", StrVal(<<">=3.5">>)))
    \o <<"\"", "\n">>
    \o deps \o <<"\n">>
    \o <<"\n">>
    \o <<"[tool.poetry.scripts]", "\n">>
    \o scripts \o <<"\n">>
    \o <<"\n">>
    \o <<"[build-system]", "\n">>
    \o <<"requires = [\"poetry-core\"]", "\n">>
    \o <<"build-backend = \"poetry.core.masonry.api\"", "\n">>

\* FinalText without the replace of line 125
FinalTextNoCollapse(t) == t

\* line 125
FinalText(t) == CollapseBlankLines(t)

\* lines 97-125; exc is "" when the function returns, and then text is the
\* returned document
generate_pyproject_toml(m) ==
    LET cls  == Get(m, "classifiers", ListVal(<<>>))
        reqs == Get(m, "install_requires", ListVal(<<>>))
        scr  == Get(m, "scripts", ListVal(<<>>))
    IN  IF (Truthy(cls) /\ ~Iterable(cls)) \/ ~Iterable(reqs) \/ ~Iterable(scr)
        THEN [exc |-> "TypeError", text |-> <<>>]
        ELSE [exc |-> "",
              text |-> FinalText(Template(m,
                          IF Truthy(cls) THEN ClassifiersBlock(Items(cls))
                                         ELSE Format(cls),
                          generate_dependency_section(Items(reqs)),
                          scripts_section(Items(scr))))]

(***************************************************************************)
(* find_setup_function.  calls are the Call nodes of the tree in the order *)
(* ast.walk yields them; func.kind is "Name" (func.name is .id),           *)
(* "Attribute" (func.name is .attr) or "Other" (neither .id nor .attr).    *)
(***************************************************************************)
Call(kind, name, kws) == [func |-> [kind |-> kind, name |-> name], keywords |-> kws]

\* lines 16-19: "" when the comparison is made, else the exception
FoundExc(node) == IF node.func.kind = "Other" THEN "AttributeError" ELSE ""
Found(node) == node.func.name = "setup"

\* lines 13-23
RECURSIVE find_setup_function(_)
find_setup_function(calls) ==
    IF calls = <<>> THEN [exc |-> "", found |-> FALSE, keywords |-> <<>>]
    ELSE IF FoundExc(Head(calls)) # ""
    THEN [exc |-> FoundExc(Head(calls)), found |-> FALSE, keywords |-> <<>>]
    ELSE IF Found(Head(calls))
    THEN [exc |-> "", found |-> TRUE, keywords |-> Head(calls).keywords]
    ELSE find_setup_function(Tail(calls))

(***************************************************************************)
(* Bounds of the explored inputs.                                          *)
(***************************************************************************)
MaxArgs       == 3   \* positional arguments on the command line: 0..MaxArgs
MaxKeywords   == 2   \* keyword arguments of a setup() call built from the pool
MaxKeywordLen == 5   \* characters of a keywords="..." string
MaxAuthorLen  == 3   \* characters of an author="..." string
MaxEmailLen   == 2   \* characters of an author_email="..." string
MaxRequires   == 2   \* entries of install_requires=[...]
MaxScripts    == 2   \* entries of scripts=[...]
MaxPathLen    == 4   \* characters of the path of a single script

\* all sequences over S of length at most n
SeqUpTo(S, n) == UNION {[1..k -> S] : k \in 0..n}

(***************************************************************************)
(* The source files explored.                                              *)
(***************************************************************************)
\* keyword arguments whose value shapes cover every branch of the extractor
KeywordPool ==
    { Kw("name", ConstStr(<<"x", "\n", " ", "y">>)),
      Kw("zip_safe", ConstNum(<<"F", "a", "l", "s", "e">>)),
      Kw("author", ConstStr(<<"A", ",", " ", "B">>)),
      Kw("author_email", ConstStr(<<"a", "@", "x", ",", "b", "@", "y">>)),
      Kw("author_email", ConstStr(<<"a", "@", "x">>)),
      Kw("keywords", ListNode(<<EltStr(<<"k">>), EltStr(<<" ", "w">>)>>)),
      Kw("keywords", TupleNode(<<EltStr(<<"k">>)>>)),
      Kw("install_requires", ListNode(<<EltStr(<<"r", " ">>)>>)),
      Kw("install_requires", NameNode(<<"R", "Q">>)),
      Kw("install_requires", ConstNum(<<"5">>)),
      Kw("scripts", TupleNode(<<EltStr(<<"b", "/", "m">>)>>)),
      Kw("packages", ListNode(<<EltOther>>)),
      Kw("ext_modules", OtherNode),
      Kw("cmdclass", OtherNode),
      Kw(NoArg, NameNode(<<"k", "w">>)) }

\* a setup.py that Python can run repeats no keyword name (the compiler
\* rejects a repeated keyword argument)
DistinctArgs(kws) ==
    \A i, j \in 1..Len(kws) : (i # j /\ kws[i].arg = kws[j].arg) => kws[i].arg = NoArg

PoolCalls == {kws \in SeqUpTo(KeywordPool, MaxKeywords) : DistinctArgs(kws)}

\* calls that are not setup(), met by ast.walk before the setup() call
Prefixes ==
    { <<>>,
      <<Call("Name", "print", <<>>)>>,
      <<Call("Attribute", "exit", <<>>)>>,
      <<Call("Other", "", <<>>)>> }

File(ok, calls) == [syntaxOk |-> ok, calls |-> calls]

\* files without a setup() call: one that does not parse, and the prefixes
NoSetupSources ==
    {File(FALSE, <<>>)} \cup {File(TRUE, pre) : pre \in Prefixes}

StructuralSources ==
    NoSetupSources
    \cup {File(TRUE, pre \o <<Call(k, "setup", kws)>>) :
             pre \in Prefixes, k \in {"Name", "Attribute"},
             kws \in {<<>>, <<Kw("name", ConstStr(<<"x">>))>>}}
    \cup {File(TRUE, <<Call("Name", "setup", kws)>>) : kws \in PoolCalls}

\* setup(keywords="...")
KeywordStrings == SeqUpTo({"a", ",", " "}, MaxKeywordLen)
KeywordSources ==
    {File(TRUE, <<Call("Name", "setup", <<Kw("keywords", ConstStr(s))>>)>>) :
        s \in KeywordStrings}

\* setup(author="...", author_email="...") in both orders, alone or around a
\* keyword of a supported shape
AuthorStrings == SeqUpTo({"A", ",", " "}, MaxAuthorLen)
EmailStrings  == SeqUpTo({"e", ",", " "}, MaxEmailLen)
AuthorCalls ==
    UNION {{ <<Kw("author", ConstStr(a)), Kw("author_email", ConstStr(e))>>,
             <<Kw("author_email", ConstStr(e)), Kw("author", ConstStr(a))>> } :
           a \in AuthorStrings, e \in EmailStrings}
    \cup { <<Kw("author", ConstStr(<<"A", ",", "B">>)),
             Kw("name", ConstStr(<<"x">>)),
             Kw("author_email", ConstStr(<<"a", ",", "b">>))>>,
           <<Kw("author_email", ConstStr(<<"a">>)),
             Kw("name", NameNode(<<"N">>)),
             Kw("author", ConstStr(<<"A", ",", "B">>))>> }
AuthorSources ==
    {File(TRUE, <<Call("Name", "setup", kws)>>) : kws \in AuthorCalls}

\* setup(install_requires=[...], scripts=[...], classifiers=...)
Requirements == {<<"r">>, <<"q", ">", "1">>}
ScriptPaths ==
    { <<"b", "/", "m">>, <<".", "m">>,
      <<"b", ".", "d", "/", "m">>, <<"b", "/", "m", ".", "t", ".", "p">> }
ClassifierArgs ==
    { <<>>,
      <<Kw("classifiers", ListNode(<<>>))>>,
      <<Kw("classifiers", ListNode(<<EltStr(<<"c">>), EltStr(<<"d">>)>>))>> }
StrElts(l) == [i \in 1..Len(l) |-> EltStr(l[i])]
RenderCalls ==
    { <<Kw("install_requires", ListNode(StrElts(r))),
        Kw("scripts", ListNode(StrElts(s)))>> \o c :
      r \in SeqUpTo(Requirements, MaxRequires),
      s \in SeqUpTo(ScriptPaths, MaxScripts),
      c \in ClassifierArgs }
    \cup { <<Kw("scripts", ListNode(<<EltStr(p)>>))>> :
           p \in SeqUpTo({"b", "/", "."}, MaxPathLen) }
RenderSources ==
    {File(TRUE, <<Call("Name", "setup", kws)>>) : kws \in RenderCalls}

Sources == StructuralSources \cup KeywordSources \cup AuthorSources \cup RenderSources

(***************************************************************************)
(* main(), as the steps of one run of the program.                         *)
(***************************************************************************)
VARIABLES
    argc,        \* len(sys.argv): the program name and the positional arguments
    source,      \* the file at sys.argv[1]
    pc,          \* where the run is
    setup_node,  \* what find_setup_function returned: found, and its keywords
    metadata,    \* the mapping parse_setup_py returned
    content,     \* pyproject_toml_content
    stdout,      \* the diagnostics printed, in order
    srcFile,     \* the source file handle: times opened, open now, read
    destFile,    \* the destination: times opened, open now, content on disk
    exitStatus,  \* -1 while the process runs
    exc          \* the uncaught exception and the step that raised it

vars == <<argc, source, pc, setup_node, metadata, content, stdout,
          srcFile, destFile, exitStatus, exc>>

\* WrongArgCount counting the positional arguments as len(sys.argv)
WrongArgCountOffByOne == argc # 2

\* line 145
WrongArgCount == argc # 3

NoExc == [type |-> "", at |-> "", by |-> ""]
None == [found |-> FALSE, keywords |-> <<>>]
OldContent == <<"old">>

Init ==
    /\ argc \in 1..(MaxArgs + 1)
    /\ source \in IF WrongArgCount THEN NoSetupSources ELSE Sources
    /\ pc = "main"
    /\ setup_node = None
    /\ metadata = EmptyDict
    /\ content = <<>>
    /\ stdout = <<>>
    /\ srcFile = [opens |-> 0, open |-> FALSE, read |-> FALSE]
    /\ destFile = [opens |-> 0, open |-> FALSE, content |-> OldContent]
    /\ exitStatus = -1
    /\ exc = NoExc

\* an uncaught exception ends the process with status 1
Crash(type, at, by) ==
    /\ pc' = "crashed"
    /\ exc' = [type |-> type, at |-> at, by |-> by]
    /\ exitStatus' = 1

\* lines 145-149
UsageError ==
    /\ pc = "main"
    /\ WrongArgCount
    /\ stdout' = Append(stdout, "usage")
    /\ exitStatus' = 1
    /\ pc' = "exited"
    /\ UNCHANGED <<argc, source, setup_node, metadata, content, srcFile, destFile, exc>>

\* line 81: open(file_path, "r")
OpenSource ==
    /\ pc = "main"
    /\ ~WrongArgCount
    /\ \E ok \in BOOLEAN :
          IF ok
          THEN /\ srcFile' = [srcFile EXCEPT !.opens = @ + 1, !.open = TRUE]
               /\ pc' = "read"
               /\ UNCHANGED <<exc, exitStatus>>
          ELSE /\ Crash("OSError", "open_source", "")
               /\ UNCHANGED srcFile
    /\ UNCHANGED <<argc, source, setup_node, metadata, content, stdout, destFile>>

\* line 82 and the end of the with block: the handle is closed either way
ReadSource ==
    /\ pc = "read"
    /\ \E ok \in BOOLEAN :
          IF ok
          THEN /\ srcFile' = [srcFile EXCEPT !.open = FALSE, !.read = TRUE]
               /\ pc' = "parse"
               /\ UNCHANGED <<exc, exitStatus>>
          ELSE /\ srcFile' = [srcFile EXCEPT !.open = FALSE]
               /\ Crash("UnicodeDecodeError", "read_source", "")
    /\ UNCHANGED <<argc, source, setup_node, metadata, content, stdout, destFile>>

\* line 85
ParseSource ==
    /\ pc = "parse"
    /\ IF source.syntaxOk
       THEN pc' = "find" /\ UNCHANGED <<exc, exitStatus>>
       ELSE Crash("SyntaxError", "parse", "")
    /\ UNCHANGED <<argc, source, setup_node, metadata, content, stdout, srcFile, destFile>>

\* lines 88-89, 92-94
FindSetup ==
    /\ pc = "find"
    /\ LET r == find_setup_function(source.calls)
       IN  IF r.exc # ""
           THEN Crash(r.exc, "find", "") /\ UNCHANGED <<setup_node, metadata, stdout>>
           ELSE IF r.found
           THEN /\ setup_node' = [found |-> TRUE, keywords |-> r.keywords]
                /\ pc' = "extract"
                /\ UNCHANGED <<metadata, stdout, exc, exitStatus>>
           ELSE /\ stdout' = Append(stdout, "no_setup")
                /\ metadata' = EmptyDict
                /\ pc' = "render"
                /\ UNCHANGED <<setup_node, exc, exitStatus>>
    /\ UNCHANGED <<argc, source, content, srcFile, destFile>>

\* lines 90-91
ExtractMetadata ==
    /\ pc = "extract"
    /\ LET r == extract_metadata_from_setup(setup_node.keywords)
       IN  /\ stdout' = stdout \o r.diag
           /\ IF r.exc # ""
              THEN Crash(r.exc, "extract", r.by) /\ UNCHANGED metadata
              ELSE /\ metadata' = r.metadata
                   /\ pc' = "render"
                   /\ UNCHANGED <<exc, exitStatus>>
    /\ UNCHANGED <<argc, source, setup_node, content, srcFile, destFile>>

\* Render with the destination opened before the document is generated
RenderIntoOpenFile ==
    /\ pc = "render"
    /\ destFile' = [opens |-> destFile.opens + 1, open |-> FALSE, content |-> <<>>]
    /\ LET r == generate_pyproject_toml(metadata)
       IN  IF r.exc # ""
           THEN Crash(r.exc, "render", "") /\ UNCHANGED content
           ELSE /\ content' = r.text
                /\ pc' = "write"
                /\ UNCHANGED <<exc, exitStatus>>
    /\ UNCHANGED <<argc, source, setup_node, metadata, stdout, srcFile>>

\* line 154
Render ==
    /\ pc = "render"
    /\ LET r == generate_pyproject_toml(metadata)
       IN  IF r.exc # ""
           THEN Crash(r.exc, "render", "") /\ UNCHANGED content
           ELSE /\ content' = r.text
                /\ pc' = "write"
                /\ UNCHANGED <<exc, exitStatus>>
    /\ UNCHANGED <<argc, source, setup_node, metadata, stdout, srcFile, destFile>>

\* line 140: open(file_path, "w") truncates the file
OpenDest ==
    /\ pc = "write"
    /\ \E ok \in BOOLEAN :
          IF ok
          THEN /\ destFile' = [opens |-> destFile.opens + 1, open |-> TRUE,
                               content |-> <<>>]
               /\ pc' = "writing"
               /\ UNCHANGED <<exc, exitStatus>>
          ELSE /\ Crash("OSError", "open_dest", "")
               /\ UNCHANGED destFile
    /\ UNCHANGED <<argc, source, setup_node, metadata, content, stdout, srcFile>>

\* line 141 and the end of the with block
WriteDest ==
    /\ pc = "writing"
    /\ destFile' = [destFile EXCEPT !.open = FALSE, !.content = content]
    /\ pc' = "report"
    /\ UNCHANGED <<argc, source, setup_node, metadata, content, stdout, srcFile,
                   exitStatus, exc>>

\* line 157 and the return of main
Report ==
    /\ pc = "report"
    /\ stdout' = Append(stdout, "complete")
    /\ exitStatus' = 0
    /\ pc' = "exited"
    /\ UNCHANGED <<argc, source, setup_node, metadata, content, srcFile, destFile, exc>>

Next ==
    \/ UsageError
    \/ OpenSource
    \/ ReadSource
    \/ ParseSource
    \/ FindSetup
    \/ ExtractMetadata
    \/ Render
    \/ OpenDest
    \/ WriteDest
    \/ Report

Spec == Init /\ [][Next]_vars

TypeOK ==
    /\ pc \in {"main", "read", "parse", "find", "extract", "render", "write",
               "writing", "report", "exited", "crashed"}
    /\ exitStatus \in {-1, 0, 1}

(***************************************************************************)
(* Where a run is.                                                         *)
(***************************************************************************)
\* extract_metadata_from_setup was called and returned
Returned ==
    /\ setup_node.found
    /\ \/ pc \in {"render", "write", "writing", "report"}
       \/ pc = "exited" /\ exitStatus = 0
       \/ exc.at \in {"render", "open_dest"}

\* extract_metadata_from_setup was called and returned or raised
Extracted == Returned \/ exc.at = "extract"

\* generate_pyproject_toml returned
Rendered ==
    \/ pc \in {"write", "writing", "report"}
    \/ pc = "exited" /\ exitStatus = 0
    \/ exc.at = "open_dest"

Lines(text) == Split(text, "\n")
IsStrKw(kw, arg) == kw.arg = arg /\ kw.value.kind = "Constant" /\ kw.value.isStr
Segments(s) == MapSeq(Strip, Split(s, ","))
Has(seq, x) == \E i \in 1..Len(seq) : seq[i] = x

(***************************************************************************)
(* C1: a run whose positional argument count is not 2 prints the usage     *)
(* message and exits with status 1, and never opens or reads the source    *)
(* file nor opens or writes the destination file.                          *)
(***************************************************************************)
C1_UsageErrorTouchesNoFile ==
    argc - 1 # 2 =>
        /\ srcFile = [opens |-> 0, open |-> FALSE, read |-> FALSE]
        /\ destFile = [opens |-> 0, open |-> FALSE, content |-> OldContent]
        /\ pc \in {"main", "exited"}
        /\ pc = "exited" => exitStatus = 1 /\ stdout = <<"usage">>

C1_Witness == argc - 1 = 1 /\ pc = "exited" /\ exitStatus = 1

(***************************************************************************)
(* C2: for a source file without a call to a function named setup,         *)
(* whatever other calls it contains, find_setup_function returns None,     *)
(* parse_setup_py prints a diagnostic and returns the empty mapping        *)
(* without raising, and the manifest has empty strings for name, version,  *)
(* description, license and repository.                                    *)
(***************************************************************************)
NoSetupCall(file) ==
    \A i \in 1..Len(file.calls) : file.calls[i].func.name # "setup"

C2_NoSetupCallIsNotFatal ==
    (source.syntaxOk /\ NoSetupCall(source)) =>
        /\ exc.at \notin {"find", "extract", "render"}
        /\ ~setup_node.found
        /\ Rendered =>
              /\ metadata = EmptyDict
              /\ Has(stdout, "no_setup")
              /\ \A f \in {"name = \"", "version = \"", "description = \"",
                           "license = \"", "repository = \""} :
                    Has(Lines(content), <<f, "\"">>)

C4_KeywordsOfString ==
    \A i \in 1..Len(setup_node.keywords) :
        LET kw == setup_node.keywords[i]
            s == kw.value.s
        IN  (Extracted /\ IsStrKw(kw, "keywords")) =>
               /\ exc.at = "extract" => exc.by # "keywords"
               /\ Returned =>
                     metadata["keywords"] =
                        ListVal(IF Has(s, ",") THEN Segments(s) ELSE SplitWhitespace(s))

C4_Witness ==
    /\ Returned
    /\ setup_node.keywords = <<Kw("keywords", ConstStr(<<"a", " ", " ", "a">>))>>
    /\ metadata["keywords"] = ListVal(<< <<"a">>, <<"a">> >>)

(***************************************************************************)
(* C5: for a keywords argument that is a list or tuple literal of strings, *)
(* the extractor does not raise on it and the stored keywords field is the *)
(* list of the literal's elements, each trimmed.                           *)
(***************************************************************************)
IsStrSeqKw(kw, arg) ==
    /\ kw.arg = arg
    /\ kw.value.kind \in {"List", "Tuple"}
    /\ \A n \in 1..Len(kw.value.elts) : kw.value.elts[n].kind = "str"

C5_KeywordsOfSequence ==
    \A i \in 1..Len(setup_node.keywords) :
        LET kw == setup_node.keywords[i]
        IN  (Extracted /\ IsStrSeqKw(kw, "keywords")) =>
               /\ exc.at = "extract" => exc.by # "keywords"
               /\ Returned =>
                     metadata["keywords"] =
                        ListVal([n \in 1..Len(kw.value.elts) |->
                                    Strip(kw.value.elts[n].s)])

(***************************************************************************)
(* C6: a keyword (not author, author_email or keywords) whose value is an  *)
(* unsupported expression does not make extraction raise, is absent from   *)
(* the returned mapping, and leaves the mapping what it is without that    *)
(* keyword.                                                                *)
(***************************************************************************)
IsUnsupportedKw(kw) ==
    /\ kw.arg \notin {NoArg, "author", "author_email", "keywords"}
    /\ kw.value.kind = "Other"

Without(seq, i) == SubSeq(seq, 1, i - 1) \o SubSeq(seq, i + 1, Len(seq))

C6_UnsupportedValueIsOmitted ==
    \A i \in 1..Len(setup_node.keywords) :
        LET kw == setup_node.keywords[i]
            rest == extract_metadata_from_setup(Without(setup_node.keywords, i))
        IN  (Extracted /\ IsUnsupportedKw(kw)) =>
               /\ exc.at = "extract" => exc.by # kw.arg
               /\ Returned =>
                     /\ kw.arg \notin DOMAIN metadata
                     /\ rest.exc = "" => metadata = rest.metadata

(***************************************************************************)
(* C7: for install_requires = R and scripts = S, both lists, the document  *)
(* has after the python line exactly the lines `R[i] = "*"` in order, then *)
(* a blank line and the scripts header, then exactly the lines             *)
(* `key = "S[i].__main__:main"` in order, key being the file name of S[i]  *)
(* without directory and extension, then a blank line and the build-system *)
(* header.                                                                 *)
(***************************************************************************)
\* the file name of path starts after position n
FileNameAfter(path, n) ==
    /\ n = 0 \/ path[n] = "/"
    /\ \A j \in (n + 1)..Len(path) : path[j] # "/"

\* the extension of the file name that starts after n begins at position j
ExtensionAt(path, n, j) ==
    /\ path[j] = "."
    /\ \A k \in (j + 1)..Len(path) : path[k] # "."
    /\ \E k \in (n + 1)..(j - 1) : path[k] # "."

\* key is the file name of path without directory and extension
IsScriptKey(key, path) ==
    \E n \in 0..Len(path) :
        /\ FileNameAfter(path, n)
        /\ \/ \E j \in (n + 1)..Len(path) :
                 ExtensionAt(path, n, j) /\ key = SubSeq(path, n + 1, j - 1)
           \/ /\ ~\E j \in (n + 1)..Len(path) : ExtensionAt(path, n, j)
              /\ key = SubSeq(path, n + 1, Len(path))

RequiresOf(m) == Get(m, "install_requires", ListVal(<<>>))
ScriptsOf(m) == Get(m, "scripts", ListVal(<<>>))

C8_EmailWithoutAuthor ==
    \A j \in 1..Len(setup_node.keywords) :
        LET ke == setup_node.keywords[j]
        IN  ( /\ Extracted
              /\ IsStrKw(ke, "author_email")
              /\ \A i \in 1..Len(setup_node.keywords) :
                    setup_node.keywords[i].arg # "author" ) =>
               /\ exc.at = "extract" => exc.by # "merge"
               /\ Returned =>
                     /\ "author" \notin DOMAIN metadata
                     /\ metadata["author_email"] = ListVal(Segments(ke.value.s))
                     /\ Has(stdout, "count_mismatch")

(***************************************************************************)
(* C9: when no value of the mapping contains a newline, the document has   *)
(* no two consecutive blank lines, and each of the three later section     *)
(* headers is preceded by exactly one blank line.                          *)
(***************************************************************************)
NoNewline(m) ==
    \A k \in DOMAIN m :
        /\ ~Has(m[k].s, "\n")
        /\ \A i \in 1..Len(m[k].l) : ~Has(m[k].l[i], "\n")

NoTripleNewline(text) ==
    \A i \in 1..(Len(text) - 2) :
        ~(text[i] = "\n" /\ text[i + 1] = "\n" /\ text[i + 2] = "\n")

SectionHeaders ==
    { <<"[tool.poetry.dependencies]">>, <<"[tool.poetry.scripts]">>, <<"[build-system]">> }

C9_NoConsecutiveBlankLines ==
    (Rendered /\ NoNewline(metadata)) =>
        LET L == Lines(content)
        IN  /\ NoTripleNewline(content)
            /\ \A h \in SectionHeaders :
                  \E p \in 3..Len(L) :
                     L[p] = h /\ L[p - 1] = <<>> /\ L[p - 2] # <<>>

C9_Witness ==
    /\ Rendered
    /\ DOMAIN metadata = {"install_requires", "scripts", "classifiers"}
    /\ RequiresOf(metadata).l = <<>>
    /\ ScriptsOf(metadata).l = <<>>
    /\ metadata["classifiers"].l # <<>>

(***************************************************************************)
(* C10: in a run with two arguments the destination is opened at most      *)
(* once, and only after the source was read and closed and parsing,        *)
(* extraction and rendering all succeeded; when reading, parsing,          *)
(* extraction or rendering fails the process ends with the destination     *)
(* never opened and its content unchanged.                                 *)
(***************************************************************************)
C10_DestinationOpenedLast ==
    argc = 3 =>
        /\ destFile.opens <= 1
        /\ destFile.opens = 1 =>
              /\ srcFile.read /\ ~srcFile.open
              /\ pc \in {"writing", "report", "exited"}
              /\ exc = NoExc
              /\ generate_pyproject_toml(metadata) = [exc |-> "", text |-> content]
        /\ pc \notin {"writing", "report", "exited"} =>
              destFile = [opens |-> 0, open |-> FALSE, content |-> OldContent]
        /\ pc = "crashed" => exitStatus = 1 /\ exc.at # ""

C10_Witness ==
    /\ pc = "exited"
    /\ exitStatus = 0
    /\ destFile = [opens |-> 1, open |-> FALSE, content |-> content]
    /\ setup_node.found

====
